---- MODULE Spec2Model ----
(***************************************************************************)
(* A model of app.py: the rule-based query classifier, the response        *)
(* formatter, the conversation store (one chat_history row per chat_id),   *)
(* the completion client with its retry loop, and the request handlers.    *)
(* Texts are TLA+ strings; every regular expression of the source is       *)
(* modelled by an operator that decides the same matches character by      *)
(* character.                                                              *)
(***************************************************************************)
EXTENDS Integers, Sequences, FiniteSets, TLC

VARIABLES
    prompt, tag,                 \* classify_query: its argument and its result
    raw, formatted, reformatted, \* format_response: argument, result, result on the result
    db,                          \* table chat_history: chat_id -> row
    dbUp,                        \* the storage engine answers
    pc,                          \* where the /query in progress stands
    req,                         \* the body of the last /query
    plan,                        \* mode, messages and parameters query_groq built
    attempt,                     \* loop variable of the retry loop
    sent,                        \* what each requests.post of the call came to
    slept,                       \* the time.sleep calls of the call, in seconds
    groq,                        \* the text query_groq returned
    resp,                        \* the response of the last handler
    last,                        \* the store_chat call of the last step, if any
    exchanges,                   \* per chat_id, the number of /query exchanges stored
                                 \* since the chat was last reset or rewritten
    threads,                     \* the /query requests served at the same time
    commits                      \* the threads whose commit wrote the row, in order

cvars == <<prompt, tag>>
fvars == <<raw, formatted, reformatted>>
avars == <<db, dbUp, pc, req, plan, attempt, sent, slept, groq, resp, last, exchanges>>
tvars == <<threads, commits>>
vars == <<prompt, tag, raw, formatted, reformatted,
          db, dbUp, pc, req, plan, attempt, sent, slept, groq, resp, last, exchanges,
          threads, commits>>

(***************************************************************************)
(* Bounds of the model.                                                    *)
(***************************************************************************)
MaxPromptTokens == 3
MaxTextTokens == 3
MaxExchanges == 2
\* the long completion texts are up to MaxSlack characters under or over
\* MAX_LENGTH
MaxSlack == 2

\* the value of a result that has not been computed
NoTag == "unclassified"

NoText == "<not computed>"

(***************************************************************************)
(* Text primitives (Python str / re semantics).                            *)
(***************************************************************************)
Char(s, i) == SubSeq(s, i, i)

Min(S) == CHOOSE x \in S : \A y \in S : x <= y

UpperAlpha == "ABCDEFGHIJKLMNOPQRSTUVWXYZ"

LowerAlpha == "abcdefghijklmnopqrstuvwxyz"

Digits == "0123456789_"

WordChars == {Char(UpperAlpha, i) : i \in 1..26} \cup {Char(LowerAlpha, i) : i \in 1..26}
             \cup {Char(Digits, i) : i \in 1..11}

Letters == {Char(UpperAlpha, i) : i \in 1..26} \cup {Char(LowerAlpha, i) : i \in 1..26}

WhiteSpace == {" ", "\n", "\t", "\r"}

\* str.lower() on one character
LowerChar(c) ==
    IF \E i \in 1..26 : Char(UpperAlpha, i) = c
    THEN Char(LowerAlpha, CHOOSE i \in 1..26 : Char(UpperAlpha, i) = c)
    ELSE c

\* str.lower()
RECURSIVE lower(_)
lower(s) ==
    IF Len(s) = 0 THEN ""
    ELSE IF Len(s) = 1 THEN LowerChar(s)
    ELSE LET h == Len(s) \div 2
         IN  lower(SubSeq(s, 1, h)) \o lower(SubSeq(s, h + 1, Len(s)))

RECURSIVE FirstNonSpace(_, _)
FirstNonSpace(s, i) ==
    IF i > Len(s) \/ Char(s, i) \notin WhiteSpace THEN i ELSE FirstNonSpace(s, i + 1)

RECURSIVE LastNonSpace(_, _)
LastNonSpace(s, i) ==
    IF i < 1 \/ Char(s, i) \notin WhiteSpace THEN i ELSE LastNonSpace(s, i - 1)

\* str.strip()
strip(s) == SubSeq(s, FirstNonSpace(s, 1), LastNonSpace(s, Len(s)))

\* the literal pat occurs in s at position i
At(s, pat, i) == i >= 1 /\ i + Len(pat) - 1 <= Len(s) /\ SubSeq(s, i, i + Len(pat) - 1) = pat

\* the positions of s where the literal pat occurs
Hits(s, pat) == {i \in 1..(Len(s) - Len(pat) + 1) : SubSeq(s, i, i + Len(pat) - 1) = pat}

\* Python's  pat in s
Contains(s, pat) == Hits(s, pat) # {}

\* leftmost occurrence of pat in s at or after position from, 0 when none
Find(s, pat, from) ==
    LET h == {i \in Hits(s, pat) : i >= from}
    IN  IF h = {} THEN 0 ELSE Min(h)

\* regex \b at the gap before position p (1..Len(s)+1)
IsWordAt(s, p) == p >= 1 /\ p <= Len(s) /\ Char(s, p) \in WordChars

WordBoundary(s, p) == IsWordAt(s, p - 1) # IsWordAt(s, p)

\* regex  pre.*post  (no DOTALL: .* does not cross a newline) found in s
MatchesDotStar(s, pre, post) ==
    \E i \in Hits(s, pre) : \E j \in Hits(s, post) :
        /\ j >= i + Len(pre)
        /\ ~Contains(SubSeq(s, i + Len(pre), j - 1), "\n")

(***************************************************************************)
(* classify_query                                                          *)
(***************************************************************************)
\* the literal alternatives of the tech_keywords regex, lower-cased (the regex
\* is applied with re.IGNORECASE to the lower-cased prompt)
tech_keywords ==
    {"code", "python", "java", "c++", "javascript", "js", "typescript", "ruby", "php",
     "go", "rust", "kotlin", "swift", "c#", "perl", "scala", "r", "matlab", "sql",
     "nosql", "algorithm", "recursion", "data structure", "machine learning",
     "neural network", "database", "api", "backend", "frontend", "ai",
     "time complexity", "sorting", "engineering", "system design", "software",
     "hardware", "math", "algebra", "calculus", "geometry", "statistics",
     "probability", "optimization", "cloud", "devops", "docker", "kubernetes", "git",
     "aws", "azure", "gcp", "ci", "cd", "cybersecurity", "game", "development",
     "network", "array"}

\* the alternative O\(.*\) of the tech_keywords regex, between the two \b
BigOMatch(s) ==
    \E i \in Hits(s, "o(") : \E j \in Hits(s, ")") :
        /\ WordBoundary(s, i)
        /\ j >= i + 2
        /\ ~Contains(SubSeq(s, i + 2, j - 1), "\n")
        /\ WordBoundary(s, j + 1)

\* TechKeywordMatch with the two \b of the regex left out
TechKeywordMatch_noBoundary(s) ==
    \/ \E k \in tech_keywords : Contains(s, k)
    \/ BigOMatch(s)

\* re.search(tech_keywords, prompt, re.IGNORECASE)
TechKeywordMatch(s) ==
    \/ \E k \in tech_keywords : \E i \in Hits(s, k) :
           WordBoundary(s, i) /\ WordBoundary(s, i + Len(k))
    \/ BigOMatch(s)

tech_patterns ==
    {[pre |-> "how does ", post |-> " work"],
     [pre |-> "how to ", post |-> ""],
     [pre |-> "what is the best way to ", post |-> ""],
     [pre |-> "compare ", post |-> " vs "],
     [pre |-> "why is ", post |-> " better than "],
     [pre |-> "how can ", post |-> " be improved"],
     [pre |-> "build ", post |-> ""],
     [pre |-> "create ", post |-> ""],
     [pre |-> "implement ", post |-> ""],
     [pre |-> "design ", post |-> ""],
     [pre |-> "optimize ", post |-> ""]}

debug_patterns ==
    {[pre |-> "why does this code", post |-> "fail"],
     [pre |-> "debug this", post |-> ""],
     [pre |-> "fix this code", post |-> ""],
     [pre |-> "error in this code", post |-> ""]}

developer_patterns ==
    {[pre |-> "who created", post |-> ""],
     [pre |-> "who made", post |-> ""],
     [pre |-> "who developed", post |-> ""],
     [pre |-> "who is behind", post |-> ""]}

greetings == {"hi", "hello", "hey", "howdy", "greetings", "salutations", "introduce"}

\* any(g in prompt for g in greetings)
is_greeting(p) == \E g \in greetings : Contains(p, g)

is_tech(p) ==
    \/ TechKeywordMatch(p)
    \/ \E t \in tech_patterns : MatchesDotStar(p, t.pre, t.post)

is_debugging(p) == \E t \in debug_patterns : MatchesDotStar(p, t.pre, t.post)

is_developer(p) == \E t \in developer_patterns : MatchesDotStar(p, t.pre, t.post)

\* prompt.strip().lower()
Normalize(p) == lower(strip(p))

\* classify_query with the plain greeting test moved to the front
classify_query_greetingFirst(p0) ==
    LET p == Normalize(p0)
    IN  IF is_greeting(p) THEN "greeting"
        ELSE IF is_greeting(p) /\ is_tech(p) THEN "hybrid_greeting_tech"
        ELSE IF is_greeting(p) /\ is_debugging(p) THEN "hybrid_greeting_debugging"
        ELSE IF is_developer(p) THEN "developer"
        ELSE IF is_tech(p) THEN "tech"
        ELSE IF is_debugging(p) THEN "debugging"
        ELSE "general"

classify_query(p0) ==
    LET p == Normalize(p0)
    IN  IF is_greeting(p) /\ is_tech(p) THEN "hybrid_greeting_tech"
        ELSE IF is_greeting(p) /\ is_debugging(p) THEN "hybrid_greeting_debugging"
        ELSE IF is_developer(p) THEN "developer"
        ELSE IF is_greeting(p) THEN "greeting"
        ELSE IF is_tech(p) THEN "tech"
        ELSE IF is_debugging(p) THEN "debugging"
        ELSE "general"

(***************************************************************************)
(* format_response                                                         *)
(*                                                                         *)
(* A TLA+ string cannot hold the backquote character, so every text of    *)
(* the model writes the tilde for it: the code-fence marker of the source  *)
(* (three backquotes) is the string Fence.  Like the backquote, the tilde  *)
(* is neither a word character, a letter, white space nor punctuation,     *)
(* and no text of the model uses it for anything else.                     *)
(***************************************************************************)
Fence == "~~~"

MAX_LENGTH == 3000

MIN_LENGTH == 50

RECURSIVE ReplaceFrom(_, _, _, _, _)
\* re.sub of a literal pattern: the leftmost non-overlapping occurrences of
\* pat in key (s itself, or s lower-cased under re.IGNORECASE) become rep
ReplaceFrom(s, key, pat, rep, from) ==
    LET i == Find(key, pat, from)
    IN  IF i = 0 THEN SubSeq(s, from, Len(s))
        ELSE SubSeq(s, from, i - 1) \o rep \o ReplaceFrom(s, key, pat, rep, i + Len(pat))

ReplaceAll(s, pat, rep) == ReplaceFrom(s, s, pat, rep, 1)

\* re.sub(r'AlgoAI', 'the assistant', response, flags=re.IGNORECASE)
SubPersona(s) == ReplaceFrom(s, lower(s), "algoai", "the assistant", 1)

RECURSIVE SubInstFrom(_, _)
\* re.sub(r'\[INST\].*?\[/INST\]', '', s, flags=re.DOTALL)
SubInstFrom(s, from) ==
    LET i == Find(s, "[INST]", from)
        j == IF i = 0 THEN 0 ELSE Find(s, "[/INST]", i + 6)
    IN  IF j = 0 THEN SubSeq(s, from, Len(s))
        ELSE SubSeq(s, from, i - 1) \o SubInstFrom(s, j + 7)

SubInst(s) == SubInstFrom(s, 1)

\* the three sanitising lines shared by format_response and store_chat
StripTokens(s) == strip(ReplaceAll(SubInst(s), "<s>", ""))

\* end of the match of \n\s*\n{2,} that starts at the newline at i; 0 when none
BlankRunEnd(s, i) ==
    LET e == FirstNonSpace(s, i + 1) - 1
        ends == {j \in (i + 2)..e : Char(s, j - 1) = "\n" /\ Char(s, j) = "\n"}
    IN  IF ends = {} THEN 0 ELSE CHOOSE j \in ends : \A k \in ends : k <= j

RECURSIVE CollapseFrom(_, _)
\* re.sub(r'\n\s*\n{2,}', '\n\n', response, flags=re.DOTALL)
CollapseFrom(s, from) ==
    LET starts == {i \in Hits(s, "\n") : i >= from /\ BlankRunEnd(s, i) # 0}
    IN  IF starts = {} THEN SubSeq(s, from, Len(s))
        ELSE LET i == Min(starts)
             IN  SubSeq(s, from, i - 1) \o "\n\n" \o CollapseFrom(s, BlankRunEnd(s, i) + 1)

CollapseBlankLines(s) == CollapseFrom(s, 1)

\* regex ^ under re.MULTILINE
LineStart(s, p) == p = 1 \/ (p >= 2 /\ p <= Len(s) + 1 /\ Char(s, p - 1) = "\n")

RECURSIVE BulletFrom(_, _)
\* re.sub(r'^\s*-\s*', '- ', response, flags=re.MULTILINE)
BulletFrom(s, from) ==
    LET starts == {p \in from..Len(s) :
                      LineStart(s, p) /\ Char(s, FirstNonSpace(s, p)) = "-"}
    IN  IF starts = {} THEN SubSeq(s, from, Len(s))
        ELSE LET p == Min(starts)
                 e == FirstNonSpace(s, FirstNonSpace(s, p) + 1) - 1
             IN  SubSeq(s, from, p - 1) \o "- " \o BulletFrom(s, e + 1)

NormalizeBullets(s) == BulletFrom(s, 1)

RECURSIVE LettersEnd(_, _)
\* the position after the run of [a-zA-Z]* that starts at i
LettersEnd(s, i) ==
    IF i <= Len(s) /\ Char(s, i) \in Letters THEN LettersEnd(s, i + 1) ELSE i

RECURSIVE CountOpenFrom(_, _)
\* open_blocks: len(re.findall(...)) of a fence followed by [a-zA-Z]*
CountOpenFrom(s, from) ==
    LET i == Find(s, "~~~", from)
    IN  IF i = 0 THEN 0 ELSE 1 + CountOpenFrom(s, LettersEnd(s, i + 3))

RECURSIVE CountFenceFrom(_, _)
\* len(re.findall(...)) of the bare fence marker
CountFenceFrom(s, from) ==
    LET i == Find(s, "~~~", from)
    IN  IF i = 0 THEN 0 ELSE 1 + CountFenceFrom(s, i + 3)

FenceCount(s) == CountFenceFrom(s, 1)

\* lines 193-197: the fence repair
RepairFences(s) ==
    IF Contains(s, "~~~")
    THEN LET open_blocks == CountOpenFrom(s, 1)
             close_blocks == CountFenceFrom(s, 1) - open_blocks
         IN  IF open_blocks > close_blocks THEN s \o "\n~~~" ELSE s
    ELSE s

DefaultExample ==
    "\n**Code Example (Python):**\n~~~python\nprint(\"Hello, world!\")  # Default example\n~~~"

\* lines 198-199
AddDefaultExample(s) ==
    IF Contains(s, "Code Example") /\ ~Contains(s, "~~~") THEN s \o DefaultExample ELSE s

\* regex $ without re.MULTILINE, at the gap before position p
DollarAt(s, p) == p = Len(s) + 1 \/ (p = Len(s) /\ Char(s, p) = "\n")

\* re.search(r"\*\*Code Example $$       <name>       $$:\*\*", response): the
\* pattern of the source has two end-of-string anchors on each side of the name
LabelSearch(s, name) ==
    LET mid == "       " \o name \o "       "
    IN  \E i \in Hits(s, "**Code Example ") :
            LET p == i + 15
                q == p + Len(mid)
            IN  DollarAt(s, p) /\ At(s, mid, p) /\ DollarAt(s, q) /\ At(s, ":**", q)

\* one  if not re.search(label): response = re.sub(fence, label + fence)  pair
LabelFence(s, name, shown, fence) ==
    IF ~LabelSearch(s, name)
    THEN ReplaceAll(s, fence, "**Code Example (" \o shown \o "):**\n" \o fence)
    ELSE s

\* lines 200-213, in the order of the source
LabelFences(s) ==
    LET s1 == LabelFence(s, "Python", "Python", "~~~python")
        s2 == LabelFence(s1, "Java", "Java", "~~~java")
        s3 == LabelFence(s2, "C++", "C++", "~~~cpp")
        s4 == LabelFence(s3, "JavaScript", "JavaScript", "~~~javascript")
        s5 == LabelFence(s4, "TypeScript", "TypeScript", "~~~typescript")
        s6 == LabelFence(s5, "Go", "Go", "~~~go")
    IN  LabelFence(s6, "Rust", "Rust", "~~~rust")

\* response.split("\n")[0]
FirstLine(s) ==
    LET i == Find(s, "\n", 1)
    IN  IF i = 0 THEN s ELSE SubSeq(s, 1, i - 1)

\* re.split(r'(?<=[.!?])\s+', response)[0]
FirstSentence(s) ==
    LET cuts == {p \in 2..Len(s) :
                    Char(s, p) \in WhiteSpace /\ Char(s, p - 1) \in {".", "!", "?"}}
    IN  IF cuts = {} THEN s ELSE SubSeq(s, 1, Min(cuts) - 1)

\* CollapseGreeting without the appended full stop
CollapseGreeting_noDot(s) ==
    IF classify_query(FirstLine(s)) = "greeting" THEN FirstSentence(s) ELSE s

\* lines 215-216
CollapseGreeting(s) ==
    IF classify_query(FirstLine(s)) = "greeting" THEN FirstSentence(s) \o "." ELSE s

TrimMarker == "... (response trimmed)."

MoreDetails == " Please provide more details if needed."

\* EnforceLength that already trims a text of exactly MAX_LENGTH characters
EnforceLength_atLimit(s) ==
    IF Len(s) >= MAX_LENGTH THEN SubSeq(s, 1, MAX_LENGTH) \o TrimMarker
    ELSE IF Len(s) < MIN_LENGTH THEN s \o MoreDetails
    ELSE s

\* lines 217-220
EnforceLength(s) ==
    IF Len(s) > MAX_LENGTH THEN SubSeq(s, 1, MAX_LENGTH) \o TrimMarker
    ELSE IF Len(s) < MIN_LENGTH THEN s \o MoreDetails
    ELSE s

NoResponseError == "Error: No response generated. Please try again."

\* the text just before the greeting collapse (lines 186-214)
Prepared(s) ==
    ReplaceAll(LabelFences(AddDefaultExample(RepairFences(
        NormalizeBullets(CollapseBlankLines(s))))), "~~~", "\n~~~")

\* lines 186-188
Cleaned(response) == StripTokens(SubPersona(response))

format_response(response) ==
    LET cleaned == Cleaned(response)
    IN  IF cleaned = "" THEN NoResponseError
        ELSE EnforceLength(CollapseGreeting(Prepared(cleaned)))

(***************************************************************************)
(* The conversation store: table chat_history, primary key chat_id.        *)
(* A call on a Session raises while the storage engine is unavailable      *)
(* (dbUp = FALSE); every database function catches that and returns its    *)
(* fallback.  The timestamp column is left out: a chat_id holds at most    *)
(* one row, so no ordering by timestamp within a chat_id decides anything. *)
(***************************************************************************)
MAX_HISTORY == 6

ChatIds == {"c1", "c2"}

Users == {"u1", "u2"}

NoRow == [present |-> FALSE]

\* the only value of welcome_shown a caller of store_chat passes: its default
WelcomeDefault == 0

\* s[:n]
Prefix(s, n) == SubSeq(s, 1, IF Len(s) < n THEN Len(s) ELSE n)

\* line 52; the title argument None and the empty title are both falsy
TitleFor(chat_id, user_msg, title) ==
    IF title # "" THEN title
    ELSE Prefix(IF user_msg # "" THEN strip(Prefix(user_msg, 50)) ELSE "Chat " \o chat_id, 50)

\* ChatHistory that marks the welcome as shown once a turn is stored
ChatHistory_welcomeSet(chat_id, user_id, user_msg, ai_msg, title, welcome_shown) ==
    [present |-> TRUE,
     user_id |-> user_id,
     user_msg |-> user_msg,
     ai_msg |-> StripTokens(ai_msg),
     title |-> TitleFor(chat_id, user_msg, title),
     welcome_shown |-> 1]

\* ChatHistory with the assistant text stored as it was passed
ChatHistory_rawAi(chat_id, user_id, user_msg, ai_msg, title, welcome_shown) ==
    [present |-> TRUE,
     user_id |-> user_id,
     user_msg |-> user_msg,
     ai_msg |-> ai_msg,
     title |-> TitleFor(chat_id, user_msg, title),
     welcome_shown |-> welcome_shown]

\* lines 53-63: the ChatHistory object that store_chat merges, its ai_msg
\* cleaned by lines 53-54
ChatHistory(chat_id, user_id, user_msg, ai_msg, title, welcome_shown) ==
    [present |-> TRUE,
     user_id |-> user_id,
     user_msg |-> user_msg,
     ai_msg |-> StripTokens(ai_msg),
     title |-> TitleFor(chat_id, user_msg, title),
     welcome_shown |-> welcome_shown]

\* store_chat: session.merge replaces the row of the chat_id; a database
\* error is caught and leaves the table as it was
store_chat(table, up, chat_id, user_id, user_msg, ai_msg, title, welcome_shown) ==
    IF up
    THEN [table EXCEPT ![chat_id] =
              ChatHistory(chat_id, user_id, user_msg, ai_msg, title, welcome_shown)]
    ELSE table

\* session.query(ChatHistory).filter_by(chat_id=chat_id).all()
RowsOf(table, chat_id) ==
    IF table[chat_id] = NoRow THEN <<>> ELSE <<table[chat_id]>>

RECURSIVE Turns(_)
\* the list comprehension of line 77
Turns(rows) ==
    IF rows = <<>> THEN <<>>
    ELSE LET chat == Head(rows)
         IN  (IF chat.user_msg # "" \/ chat.ai_msg # ""
              THEN <<[user |-> chat.user_msg, ai |-> chat.ai_msg]>>
              ELSE <<>>) \o Turns(Tail(rows))

get_chat_history(table, up, chat_id) ==
    IF up THEN Turns(RowsOf(table, chat_id)) ELSE <<>>

\* None is written as the empty text: the callers only test truthiness
get_previous_response(table, up, chat_id) ==
    IF up /\ table[chat_id] # NoRow THEN table[chat_id].ai_msg ELSE ""

has_welcome_been_shown_unset(table, up, chat_id) == 0

has_welcome_been_shown(table, up, chat_id) ==
    IF up /\ table[chat_id] # NoRow THEN table[chat_id].welcome_shown ELSE 0

\* chat_history[-MAX_HISTORY:]
LastN(seq, n) ==
    IF Len(seq) <= n THEN seq ELSE SubSeq(seq, Len(seq) - n + 1, Len(seq))

(***************************************************************************)
(* query_groq, up to the request payload (lines 226-399).  The content of  *)
(* the persona block and of each directive is written by its first line.   *)
(***************************************************************************)
SYSTEM_PROMPT == "You are an expert coding assistant"

RECURSIVE HistoryMessages(_)
\* lines 260-263
HistoryMessages(chat_history) ==
    IF chat_history = <<>> THEN <<>>
    ELSE <<[role |-> "user", content |-> Head(chat_history).user],
           [role |-> "assistant", content |-> Head(chat_history).ai]>>
         \o HistoryMessages(Tail(chat_history))

\* lines 259-264
BaseMessages(chat_history, p) ==
    <<[role |-> "system", content |-> SYSTEM_PROMPT]>>
    \o HistoryMessages(chat_history)
    \o <<[role |-> "user", content |-> p]>>

\* temperatures are written in tenths
Directive(text, max_tokens, temp, follow_up) ==
    [text |-> text, max_tokens |-> max_tokens, temp |-> temp, follow_up |-> follow_up]

\* lines 269-391: the directive, max_tokens, temp and follow_up of each branch
DirectiveFor(mode, p, deep_dive, last_response) ==
    CASE mode = "greeting" ->
           Directive("Provide a warm and engaging introduction to set the tone for an educational coding journey:",
                     200, 5,
                     "**What coding topic would you like to explore today? Feel free to specify a language!**")
      [] mode = "hybrid_greeting_tech" ->
           Directive("Handle a hybrid intent with a greeting and a technical question:",
                     1000, 2, "**Would you like a deeper explanation or a different approach?**")
      [] mode = "hybrid_greeting_debugging" ->
           Directive("Handle a hybrid intent with a greeting and a debugging question:",
                     800, 3, "**Would you like to test the fix or explore error handling further?**")
      [] mode = "tech" ->
           IF deep_dive /\ last_response # ""
           THEN Directive("Provide a deeper analysis by building on the previous response: **Previous response: {last_response}**",
                          1200, 2, "**Would you like a different approach or more depth?**")
           ELSE Directive("Provide a detailed, educational response to help the user understand and apply the solution:",
                          1000, 2, "**Would you like a deeper explanation?**")
      [] mode = "debugging" ->
           Directive("Provide a structured debugging guide:",
                     800, 3, "**Would you like to test the fix or explore error handling further?**")
      [] mode = "developer" ->
           Directive("Provide a detailed introduction about the creators of this assistant:",
                     500, 2,
                     "**Would you like to know more about the development process or try a coding challenge?**")
      [] OTHER ->
           IF deep_dive /\ last_response # ""
           THEN Directive("Expand on the previous response with deeper insights: **Previous response: {last_response}**",
                          600, 3, "**Would you like to dig deeper?**")
           ELSE IF Contains(lower(p), "joke")
           THEN Directive("Provide a lighthearted joke, followed by a brief response related to the query (2-3 sentences).",
                          400, 3, "**Do you have further questions or want a deeper explanation?**")
           ELSE Directive("Provide an educational response:",
                          400, 3, "**Do you have further questions or want a deeper explanation?**")

NextQueryPlease == "Please provide your next query."

\* the prompts that are sent to /query
Queries == {"hello", "How to implement a binary search tree in Python?"}

\* line 226, mode = classify_query(prompt), tabulated over the prompts
ModeOf == [q \in Queries |-> classify_query(q)]

\* lines 226-399: what query_groq has built when it enters the retry loop, or
\* the fixed text it returns at once (skip) for a repeated greeting
Plan(table, up, chat_id, p, deep_dive) ==
    LET mode == ModeOf[p]
        last_response == IF deep_dive THEN get_previous_response(table, up, chat_id) ELSE ""
        chat_history == LastN(get_chat_history(table, up, chat_id), MAX_HISTORY)
        welcome_shown == has_welcome_been_shown(table, up, chat_id)
        d == DirectiveFor(mode, p, deep_dive, last_response)
    IN  [mode |-> mode,
         skip |-> mode = "greeting" /\ welcome_shown # 0,
         chat_history |-> chat_history,
         messages |-> BaseMessages(chat_history, p)
                      \o <<[role |-> "system", content |-> d.text]>>,
         max_tokens |-> d.max_tokens,
         temp |-> d.temp,
         follow_up |-> d.follow_up,
         store_read |-> up]

NoPlan == [mode |-> "none"]

(***************************************************************************)
(* query_groq, the retry loop (lines 402-421)                              *)
(***************************************************************************)
\* the exceptions that are a requests.RequestException: a failed transport
\* (ConnectionError, Timeout) and the HTTPError that raise_for_status raises
RequestExceptions == {"Timeout", "HTTPError"}

\* what one requests.post can come to: a completion envelope with its content,
\* a RequestException with its message, or an envelope without choices
\* (KeyError, which the loop does not catch)
Outcomes ==
    {[kind |-> "ok", text |-> "Hi there, welcome!"],
     [kind |-> "ok", text |-> "  \n"],
     [kind |-> "Timeout", text |-> "Read timed out."],
     [kind |-> "HTTPError", text |-> "503 Server Error: Service Unavailable for url"],
     [kind |-> "KeyError", text |-> "'choices'"]}

\* how the loop sees an outcome: returned, caught by its except clause, or
\* an exception that passes through it
Caught(kind) == IF kind \in RequestExceptions THEN "RequestException" ELSE kind

\* stands for the three non-ASCII characters between "attempts" and the reason
\* in the f-strings of lines 420 and 446, which a TLA+ string cannot hold
Dash == "--"

\* line 420
GroqFailed(reason) ==
    "Error: Groq API failed after 3 attempts" \o Dash \o reason \o ". Please try again later."

\* Completion without the test for an empty text
Completion_keepEmpty(content, follow_up) ==
    LET bot_response == strip(content)
    IN  IF follow_up # "" /\ ~Contains(bot_response, follow_up)
        THEN bot_response \o "\n\n" \o follow_up
        ELSE bot_response

\* lines 408-414
Completion(content, follow_up) ==
    LET bot_response == strip(content)
    IN  IF bot_response = "" THEN NoResponseError
        ELSE IF follow_up # "" /\ ~Contains(bot_response, follow_up)
        THEN bot_response \o "\n\n" \o follow_up
        ELSE bot_response

\* a backoff that does not grow
BackoffSeconds_constant(n) == 1

\* time.sleep(2 ** attempt)
BackoffSeconds(n) == 2 ^ n

(***************************************************************************)
(* The request handlers.  One request is handled at a time; /query spans   *)
(* the remote attempts of query_groq, every other handler is one step.     *)
(***************************************************************************)
\* the requests to /query: well-formed JSON bodies with the X-User-ID header,
\* no body at all (get_json gives None or raises), and a body whose query is
\* not a text
RequestBodies ==
    {[kind |-> "json", query |-> q, chat_id |-> "c1", user_id |-> "u1", deep_dive |-> FALSE] :
        q \in Queries}
    \cup {[kind |-> "json", query |-> "How to implement a binary search tree in Python?",
            chat_id |-> "c1", user_id |-> "u1", deep_dive |-> TRUE]}
    \cup {[kind |-> "json", query |-> "hello", chat_id |-> "c1", user_id |-> "u1",
            deep_dive |-> TRUE]}
    \cup {[kind |-> k, query |-> "", chat_id |-> "c1", user_id |-> "u1", deep_dive |-> FALSE] :
            k \in {"no_body", "query_not_text"}}

\* the bodies of /update_chat
UpdateBodies ==
    {[user_msg |-> "hello", ai_msg |-> "<s>Hi there, welcome! ", title |-> ""],
     [user_msg |-> "", ai_msg |-> "", title |-> ""],
     [user_msg |-> " hi ", ai_msg |-> "[INST]be brief[/INST]ok", title |-> "My chat"]}

\* the requests to /update_chat/<chat_id>
UpdateRequests ==
    {[chat_id |-> "c1", user_id |-> "u1", body |-> b] : b \in UpdateBodies}
    \cup {[chat_id |-> "c2", user_id |-> "u2",
            body |-> [user_msg |-> "hello", ai_msg |-> "<s>Hi there, welcome! ", title |-> ""]]}

NewTitles == {"Renamed"}

\* random.choice(welcome_messages) of /new_chat, by index; the list of lines
\* 460-465 has three elements, its first two literals having no comma between
WelcomeMessages == 1..3

NoRequest == [kind |-> "none"]

NoResponse == [handler |-> "none"]

NoCall == [called |-> FALSE]

\* jsonify(...) with its status; shape names the keys of the envelope
Envelope(handler, status, shape, text, chat_id) ==
    [handler |-> handler, status |-> status, shape |-> shape, text |-> text,
     chat_id |-> chat_id]

\* the exception left the handler: the framework answers, not the application
Fault(handler) == Envelope(handler, 500, "unhandled", "", "")

NoExchanges == [c \in ChatIds |-> 0]

\* the threads of the server that can each serve a /query
Workers == {1, 2}

NoThreads == [w \in Workers |-> [pc |-> "none"]]

\* the state in which no request has been handled yet
AppIdle ==
    /\ db = [c \in ChatIds |-> NoRow]
    /\ dbUp = TRUE
    /\ pc = "idle"
    /\ req = NoRequest
    /\ plan = NoPlan
    /\ attempt = 0
    /\ sent = <<>>
    /\ slept = <<>>
    /\ groq = NoText
    /\ resp = NoResponse
    /\ last = NoCall
    /\ exchanges = NoExchanges
    /\ threads = NoThreads
    /\ commits = <<>>

\* what a handler other than /query leaves of the last /query
ForgetQuery ==
    /\ pc' = "idle"
    /\ req' = NoRequest
    /\ plan' = NoPlan
    /\ attempt' = 0
    /\ sent' = <<>>
    /\ slept' = <<>>
    /\ groq' = NoText

\* lines 441-443: query_groq has returned text for request b
Finish(b, text) ==
    LET formatted_response == format_response(text)
    IN  /\ groq' = text
        /\ db' = store_chat(db, dbUp, b.chat_id, b.user_id, b.query, formatted_response,
                            "", WelcomeDefault)
        /\ last' = [called |-> TRUE, chat_id |-> b.chat_id, user_msg |-> b.query,
                    ai_msg |-> formatted_response, committed |-> dbUp]
        /\ exchanges' =
               IF dbUp
               THEN [exchanges EXCEPT ![b.chat_id] = @ + 1]
               ELSE exchanges
        /\ resp' = Envelope("/query", 200, "response", formatted_response, b.chat_id)
        /\ pc' = "idle"
        /\ req' = NoRequest
        /\ plan' = NoPlan

\* line 446: the except branch of get_response, reached with chat_id bound
QueryError(b, message) ==
    /\ resp' = Envelope("/query", 500, "error", "API request failed" \o Dash \o message,
                        b.chat_id)
    /\ pc' = "idle"
    /\ req' = NoRequest
    /\ plan' = NoPlan
    /\ groq' = NoText
    /\ last' = NoCall
    /\ UNCHANGED <<db, exchanges>>

\* /query, lines 435-440 and query_groq up to its first request
QueryStart(b) ==
    /\ pc = "idle"
    /\ b.kind = "json" => exchanges[b.chat_id] < MaxExchanges
    /\ attempt' = 0
    /\ sent' = <<>>
    /\ slept' = <<>>
    /\ UNCHANGED dbUp
    /\ IF b.kind = "no_body"
       THEN \* data.get raises before chat_id is bound; the except branch then
            \* raises on its own use of chat_id, and nothing catches that
            /\ resp' = Fault("/query")
            /\ pc' = "idle"
            /\ req' = NoRequest
            /\ plan' = NoPlan
            /\ groq' = NoText
            /\ last' = NoCall
            /\ UNCHANGED <<db, exchanges>>
       ELSE IF b.kind = "query_not_text"
       THEN \* prompt.strip() raises inside classify_query
            QueryError(b, "'int' object has no attribute 'strip'")
       ELSE LET p == Plan(db, dbUp, b.chat_id, b.query, b.deep_dive)
            IN  IF p.skip
                THEN Finish(b, NextQueryPlease)
                ELSE /\ pc' = "post"
                     /\ req' = b
                     /\ plan' = p
                     /\ groq' = NoText
                     /\ resp' = NoResponse
                     /\ last' = NoCall
                     /\ UNCHANGED <<db, exchanges>>

\* Post with the last failure raised again instead of turned into a message
Post_raiseLast(o) ==
    /\ pc = "post"
    /\ sent' = Append(sent, Caught(o.kind))
    /\ UNCHANGED <<dbUp, attempt, slept>>
    /\ IF o.kind = "ok"
       THEN Finish(req, Completion(o.text, plan.follow_up))
       ELSE IF o.kind \in RequestExceptions /\ attempt # 2
       THEN /\ pc' = "backoff"
            /\ UNCHANGED <<db, req, plan, groq, resp, last, exchanges>>
       ELSE QueryError(req, o.text)

\* one pass of the retry loop, lines 403-420, and what follows its return
Post(o) ==
    /\ pc = "post"
    /\ sent' = Append(sent, Caught(o.kind))
    /\ UNCHANGED <<dbUp, attempt, slept>>
    /\ IF o.kind = "ok"
       THEN Finish(req, Completion(o.text, plan.follow_up))
       ELSE IF o.kind \in RequestExceptions
       THEN IF attempt = 2
            THEN Finish(req, GroqFailed(o.text))
            ELSE /\ pc' = "backoff"
                 /\ UNCHANGED <<db, req, plan, groq, resp, last, exchanges>>
       ELSE QueryError(req, o.text)

\* line 421
Backoff ==
    /\ pc = "backoff"
    /\ slept' = Append(slept, BackoffSeconds(attempt))
    /\ attempt' = attempt + 1
    /\ pc' = "post"
    /\ UNCHANGED <<db, dbUp, req, plan, sent, groq, resp, last, exchanges>>

\* /update_chat/<chat_id>
UpdateChat(c, u, b) ==
    /\ pc = "idle"
    /\ db' = store_chat(db, dbUp, c, u, b.user_msg, b.ai_msg, b.title, WelcomeDefault)
    /\ last' = [called |-> TRUE, chat_id |-> c, user_msg |-> b.user_msg,
                ai_msg |-> b.ai_msg, committed |-> dbUp]
    /\ exchanges' = [exchanges EXCEPT ![c] = 0]
    /\ resp' = Envelope("/update_chat", 200, "message", "updated successfully", c)
    /\ ForgetQuery
    /\ UNCHANGED dbUp

\* /update_chat_title
UpdateChatTitle(c, t) ==
    /\ pc = "idle"
    /\ IF ~dbUp
       THEN /\ resp' = Envelope("/update_chat_title", 500, "error", "Title update failed", "")
            /\ UNCHANGED db
       ELSE IF db[c] = NoRow
       THEN /\ resp' = Envelope("/update_chat_title", 404, "error", "Chat not found", "")
            /\ UNCHANGED db
       ELSE /\ db' = [db EXCEPT ![c].title = Prefix(t, 50)]
            /\ resp' = Envelope("/update_chat_title", 200, "message",
                                "Chat title updated successfully", "")
    /\ last' = NoCall
    /\ ForgetQuery
    /\ UNCHANGED <<dbUp, exchanges>>

\* the body shared by /reset_chat and /delete_chat
DeleteRows(handler, c, done) ==
    /\ pc = "idle"
    /\ IF dbUp
       THEN /\ db' = [db EXCEPT ![c] = NoRow]
            /\ exchanges' = [exchanges EXCEPT ![c] = 0]
            /\ resp' = Envelope(handler, 200, "message", done, c)
       ELSE /\ resp' = Envelope(handler, 500, "error", "failed", "")
            /\ UNCHANGED <<db, exchanges>>
    /\ last' = NoCall
    /\ ForgetQuery
    /\ UNCHANGED dbUp

\* /reset_chat
ResetChat(c) == DeleteRows("/reset_chat", c, "has been reset.")

\* /delete_chat
DeleteChat(c) == DeleteRows("/delete_chat", c, "deleted successfully.")

\* /clear_chats
ClearChats(u) ==
    /\ pc = "idle"
    /\ IF dbUp
       THEN LET gone == {c \in ChatIds : db[c] # NoRow /\ db[c].user_id = u}
            IN  /\ db' = [c \in ChatIds |-> IF c \in gone THEN NoRow ELSE db[c]]
                /\ exchanges' = [c \in ChatIds |-> IF c \in gone THEN 0 ELSE exchanges[c]]
                /\ resp' = Envelope("/clear_chats", 200, "message",
                                    "All chat history cleared successfully.", "")
       ELSE /\ resp' = Envelope("/clear_chats", 500, "error", "Failed to clear chats", "")
            /\ UNCHANGED <<db, exchanges>>
    /\ last' = NoCall
    /\ ForgetQuery
    /\ UNCHANGED dbUp

NewChatId == "uuid4"

WelcomeBack == "Welcome back! Continuing your last session..."

\* /new_chat; the newest row of the user is any row of the user, the welcome
\* message is named by its index in welcome_messages (the last is the one
\* a returning user gets)
NewChat(u, force_new) ==
    /\ pc = "idle"
    /\ IF ~dbUp
       THEN resp' = Envelope("/new_chat", 500, "error", "Failed to create new chat", "")
       ELSE LET mine == {c \in ChatIds : db[c] # NoRow /\ db[c].user_id = u}
                listed == {c \in ChatIds : db[c] # NoRow /\ db[c].title # ""}
            IN  IF mine # {} /\ ~force_new
                THEN \E c \in mine :
                         resp' = Envelope("/new_chat", 200, "greeting", WelcomeBack, c)
                ELSE \E m \in WelcomeMessages :
                         resp' = Envelope("/new_chat", 200, "greeting",
                                          IF listed # {} THEN 3 ELSE m, NewChatId)
    /\ last' = NoCall
    /\ ForgetQuery
    /\ UNCHANGED <<db, dbUp, exchanges>>

\* the storage engine goes away or comes back
ToggleDb ==
    /\ pc = "idle"
    /\ dbUp' = ~dbUp
    /\ last' = NoCall
    /\ UNCHANGED <<db, pc, req, plan, attempt, sent, slept, groq, resp, exchanges>>

(***************************************************************************)
(* Specification of the classifier: a prompt is drawn, classify_query is   *)
(* applied to it.                                                          *)
(***************************************************************************)
PromptTokens ==
    {" ", "\n", "hi", "Hello", "hey", "howdy", "Greetings", "salutations", "introduce",
     "this", "python", "c++", "who made", "debug this", "fix this code", "how to",
     "weather", "O(n)"}

RECURSIVE Texts(_, _)
\* the concatenations of at most n tokens of T
Texts(T, n) ==
    IF n = 0 THEN {""}
    ELSE LET shorter == Texts(T, n - 1)
         IN  shorter \cup {s \o t : s \in shorter, t \in T}

Prompts == Texts(PromptTokens, MaxPromptTokens)


InitClassify ==
    /\ prompt \in Prompts
    /\ tag = NoTag
    /\ raw = "" /\ formatted = NoText /\ reformatted = NoText
    /\ AppIdle

Classify ==
    /\ tag = NoTag
    /\ tag' = classify_query(prompt)
    /\ UNCHANGED <<prompt, fvars, avars, tvars>>

NextClassify == Classify

SpecClassify == InitClassify /\ [][NextClassify]_vars

HybridTags == {"hybrid_greeting_tech", "hybrid_greeting_debugging"}

C2_ExactGreeting ==
    (tag # NoTag /\ lower(strip(prompt)) \in greetings) => tag = "greeting"

\* a greeting word written with a capital and surrounding white space has been
\* classified
C2_Witness ==
    /\ prompt = " Hello\n"
    /\ lower(strip(prompt)) \in greetings
    /\ tag = "greeting"

(***************************************************************************)
(* Specification of the formatter: a raw completion text is drawn,         *)
(* format_response is applied to it, and then to its own output.           *)
(***************************************************************************)
Filler == "Quick sort partitions the list around a pivot element."

TextTokens ==
    {"hi", "Hi there, welcome!", " ", "\n", "~~~", "~~~python\nx = 1\n", "foo. bar",
     Filler, "<s>", "**Code Example (Python):**\n"}

RawTexts == Texts(TextTokens, MaxTextTokens)

InitFormat ==
    /\ raw \in RawTexts
    /\ formatted = NoText /\ reformatted = NoText
    /\ prompt = "" /\ tag = NoTag
    /\ AppIdle

Format ==
    /\ formatted = NoText
    /\ formatted' = format_response(raw)
    /\ UNCHANGED <<raw, reformatted, cvars, avars, tvars>>

Reformat ==
    /\ formatted # NoText /\ reformatted = NoText
    /\ reformatted' = format_response(formatted)
    /\ UNCHANGED <<raw, formatted, cvars, avars, tvars>>

NextFormat == Format \/ Reformat

SpecFormat == InitFormat /\ [][NextFormat]_vars

\* fence markers pair up in order: the odd ones open a block, the even ones
\* close it
OpeningFences(s) == (FenceCount(s) + 1) \div 2

ClosingFences(s) == FenceCount(s) \div 2

\* C3 as stated: for a text with no unbalanced fences and a length within the
\* bounds of the formatter, formatting the formatted text changes nothing.
C3_Idempotent ==
    (/\ reformatted # NoText
     /\ OpeningFences(raw) = ClosingFences(raw)
     /\ Len(raw) >= MIN_LENGTH /\ Len(raw) <= MAX_LENGTH)
        => reformatted = formatted

\* C4 as stated: a text with more opening than closing fence markers is
\* formatted into a text whose fence markers are balanced.
C4_RepairBalances ==
    (formatted # NoText /\ OpeningFences(raw) > ClosingFences(raw))
        => OpeningFences(formatted) = ClosingFences(formatted)

\* the formatted response, before the greeting collapse, starts with a line
\* that is classified as greeting
GreetingFirstLine(r) ==
    Cleaned(r) # "" /\ classify_query(FirstLine(Prepared(Cleaned(r)))) = "greeting"

\* C10 as stated: when the first line of the formatted response is classified
\* as greeting, the formatter returns exactly the first sentence with a
\* trailing full stop and nothing else.
C10_ExactlyFirstSentence ==
    (formatted # NoText /\ GreetingFirstLine(raw))
        => formatted = FirstSentence(Prepared(Cleaned(raw))) \o "."

\* C10 amended: in that case the formatter returns the first sentence with a
\* trailing full stop, followed by the request for more details when that is
\* shorter than MIN_LENGTH characters, and cut to MAX_LENGTH characters plus the
\* trim marker when it is longer than MAX_LENGTH.
C10_FirstSentenceThenLength ==
    (formatted # NoText /\ GreetingFirstLine(raw))
        => LET fs == FirstSentence(Prepared(Cleaned(raw))) \o "."
           IN  /\ Len(fs) < MIN_LENGTH => formatted = fs \o MoreDetails
               /\ (Len(fs) >= MIN_LENGTH /\ Len(fs) <= MAX_LENGTH) => formatted = fs
               /\ Len(fs) > MAX_LENGTH
                      => formatted = SubSeq(fs, 1, MAX_LENGTH) \o TrimMarker

\* the greeting reply of the scenario has been formatted
C10_Witness ==
    /\ raw = "Hi there, welcome!"
    /\ GreetingFirstLine(raw)
    /\ formatted = "Hi there, welcome!. Please provide more details if needed."

(***************************************************************************)
(* Specification of the application: the handlers on the store.            *)
(***************************************************************************)
Init ==
    /\ AppIdle
    /\ prompt = "" /\ tag = NoTag
    /\ raw = "" /\ formatted = NoText /\ reformatted = NoText

Next ==
    \/ \E b \in RequestBodies : QueryStart(b) /\ UNCHANGED <<cvars, fvars, tvars>>
    \/ \E o \in Outcomes : Post(o) /\ UNCHANGED <<cvars, fvars, tvars>>
    \/ Backoff /\ UNCHANGED <<cvars, fvars, tvars>>
    \/ \E r \in UpdateRequests :
           UpdateChat(r.chat_id, r.user_id, r.body) /\ UNCHANGED <<cvars, fvars, tvars>>
    \/ \E c \in ChatIds, t \in NewTitles : UpdateChatTitle(c, t) /\ UNCHANGED <<cvars, fvars, tvars>>
    \/ \E c \in ChatIds : ResetChat(c) /\ UNCHANGED <<cvars, fvars, tvars>>
    \/ \E c \in ChatIds : DeleteChat(c) /\ UNCHANGED <<cvars, fvars, tvars>>
    \/ \E u \in Users : ClearChats(u) /\ UNCHANGED <<cvars, fvars, tvars>>
    \/ \E u \in Users, f \in BOOLEAN : NewChat(u, f) /\ UNCHANGED <<cvars, fvars, tvars>>
    \/ ToggleDb /\ UNCHANGED <<cvars, fvars, tvars>>

Spec == Init /\ [][Next]_vars

\* the history of the chat the last store_chat call wrote, fetched at once
HistoryNow == get_chat_history(db, dbUp, last.chat_id)

\* C5 as stated: right after a store_chat that committed, get_chat_history of
\* the same chat_id holds that turn, its user text and assistant text
\* unchanged apart from surrounding white space.
C5_RoundTrip ==
    (last.called /\ last.committed)
        => \E i \in 1..Len(HistoryNow) :
               /\ strip(HistoryNow[i].user) = strip(last.user_msg)
               /\ strip(HistoryNow[i].ai) = strip(last.ai_msg)

\* C5 amended: right after a store_chat that committed, get_chat_history of
\* the same chat_id holds that turn with its user text unchanged and its
\* assistant text without the [INST]...[/INST] spans and <s> tokens and
\* trimmed, unless both texts are then empty (such a turn is left out).
C5_RoundTripSanitized ==
    (/\ last.called /\ last.committed
     /\ (last.user_msg # "" \/ strip(ReplaceAll(SubInst(last.ai_msg), "<s>", "")) # ""))
        => \E i \in 1..Len(HistoryNow) :
               /\ HistoryNow[i].user = last.user_msg
               /\ HistoryNow[i].ai = strip(ReplaceAll(SubInst(last.ai_msg), "<s>", ""))

\* a turn whose assistant text carried a token and a trailing blank was stored
\* and is fetched
C5_Witness ==
    /\ last.called /\ last.committed
    /\ last.chat_id = "c1"
    /\ last.ai_msg = "<s>Hi there, welcome! "
    /\ get_chat_history(db, dbUp, "c1") = <<[user |-> "hello", ai |-> "Hi there, welcome!"]>>

\* C6 as stated, step by step: when every turn of a chat comes from a /query
\* exchange, the next /query exchange that is stored adds its turn behind the
\* turns already retrievable, and the history query_groq puts into the next
\* prompt is the most recent min(k, MAX_HISTORY) of the k turns.
C6_TurnsAccumulate ==
    [][/\ (/\ pc = "post" /\ last'.called /\ last'.committed
           /\ Len(get_chat_history(db, dbUp, last'.chat_id)) = exchanges[last'.chat_id])
          => get_chat_history(db', dbUp', last'.chat_id)
                 = Append(get_chat_history(db, dbUp, last'.chat_id),
                          [user |-> last'.user_msg, ai |-> last'.ai_msg])
       /\ (/\ pc = "idle" /\ pc' = "post" /\ plan'.store_read
           /\ Len(get_chat_history(db, dbUp, req'.chat_id)) = exchanges[req'.chat_id])
          => /\ Len(plan'.chat_history)
                    = (IF exchanges[req'.chat_id] < MAX_HISTORY
                       THEN exchanges[req'.chat_id] ELSE MAX_HISTORY)
             /\ plan'.chat_history
                    = LastN(get_chat_history(db, dbUp, req'.chat_id), MAX_HISTORY)
      ]_vars

\* C7: when all three attempts of a /query end in a RequestException,
\* query_groq returns a text that holds the word Error, the handler answers
\* with that text, and (the store committing) the row of the chat holds the
\* submitted user text and that error text.
C7_AllAttemptsFail ==
    [][(/\ pc = "post" /\ pc' = "idle"
        /\ sent' = <<"RequestException", "RequestException", "RequestException">>)
          => /\ Contains(groq', "Error")
             /\ resp' = Envelope("/query", 200, "response", groq', req.chat_id)
             /\ dbUp => /\ db'[req.chat_id] # NoRow
                         /\ db'[req.chat_id].user_msg = req.query
                         /\ db'[req.chat_id].ai_msg = groq'
      ]_vars

\* three attempts have failed and the error text is the stored assistant text
C7_Witness ==
    /\ pc = "idle"
    /\ sent = <<"RequestException", "RequestException", "RequestException">>
    /\ groq = GroqFailed("Read timed out.")
    /\ db["c1"] # NoRow
    /\ db["c1"].user_msg = "hello"
    /\ db["c1"].ai_msg = groq

\* the messages of the exceptions the except clause of the loop catches
FailureReasons == {o.text : o \in {x \in Outcomes : x.kind \in RequestExceptions}}

\* C8: one call sends at most 3 requests; every request after the first
\* follows a request that ended in a RequestException and a sleep of 1 second
\* (before the second) or 2 seconds (before the third), so none follows a
\* success; and after a third failure the call returns, not raises, the error
\* message around the failure reason.
C8_BoundedRetry ==
    /\ Len(sent) <= 3
    /\ Len(slept) <= 2
    /\ \A i \in 2..Len(sent) :
           /\ sent[i - 1] = "RequestException"
           /\ Len(slept) >= i - 1
           /\ slept[i - 1] = (IF i = 2 THEN 1 ELSE 2)
    /\ (pc = "idle" /\ Len(sent) = 3 /\ sent[3] = "RequestException")
           => /\ \E r \in FailureReasons :
                     groq = "Error: Groq API failed after 3 attempts" \o Dash \o r
                                \o ". Please try again later."
              /\ resp.handler = "/query" /\ resp.shape = "response"

\* a call has sent its third request after sleeping 1 and 2 seconds
C8_Witness ==
    /\ Len(sent) = 3
    /\ slept = <<1, 2>>
    /\ pc = "idle"

\* C9 as stated: whatever fails, /query answers with the envelope
\* {response, chat_id} carrying a text; no exception leaves the handler and no
\* failure is reported in an error-shaped envelope.
C9_AlwaysSuccessShaped ==
    resp.handler = "/query"
        => /\ resp.status = 200
           /\ resp.shape = "response"
           /\ resp.text # ""

(***************************************************************************)
(* Specification of the formatter on long texts: a raw completion text of  *)
(* about MAX_LENGTH characters, or of the 4000 characters of the scenario, *)
(* is drawn and format_response is applied to it.                          *)
(***************************************************************************)
RECURSIVE Repeat(_, _)
\* s * n
Repeat(s, n) ==
    IF n = 0 THEN ""
    ELSE LET h == Repeat(s, n \div 2)
         IN  IF n % 2 = 0 THEN h \o h ELSE h \o h \o s

\* a completion of n characters, n >= 2968: 53 lines of prose and a last line
LongBody(n) == Repeat(Filler \o "\n", 53) \o Repeat("x", n - 53 * (Len(Filler) + 1))

LongHeads == {"", "Hi there, welcome!\n", "<s>"}

LongTails == {"", " ", "\n\n\n\nDone."}

LongLens == ((MAX_LENGTH - MaxSlack)..(MAX_LENGTH + MaxSlack)) \cup {4000}

LongTexts == {h \o LongBody(n) \o t : h \in LongHeads, n \in LongLens, t \in LongTails}

InitTrim ==
    /\ raw \in LongTexts
    /\ formatted = NoText /\ reformatted = NoText
    /\ prompt = "" /\ tag = NoTag
    /\ AppIdle

NextTrim == Format

SpecTrim == InitTrim /\ [][NextTrim]_vars

\* C11 as stated: a raw text longer than 3000 characters that holds no code
\* fence is formatted into exactly 3000 characters followed by the marker
\* '... (response trimmed).'.
C11_RawLongIsTrimmed ==
    (formatted # NoText /\ Len(raw) > 3000 /\ ~Contains(raw, Fence))
        => /\ Len(formatted) = 3000 + Len("... (response trimmed).")
           /\ SubSeq(formatted, 3001, Len(formatted)) = "... (response trimmed)."

\* C11 amended: for such a raw text the cut applies to the text the formatter
\* has prepared (cleaned, blank lines and bullets normalised, default example
\* added, greeting collapsed), not to the raw text: a prepared text longer
\* than 3000 characters is returned as its first 3000 characters followed by
\* the marker, a prepared text of 50 to 3000 characters is returned as it is.
C11_PreparedLongIsTrimmed ==
    (/\ formatted # NoText /\ Len(raw) > 3000 /\ ~Contains(raw, Fence)
     /\ Cleaned(raw) # "")
        => LET p == CollapseGreeting(Prepared(Cleaned(raw)))
           IN  /\ Len(p) > 3000
                    => /\ formatted = SubSeq(p, 1, 3000) \o "... (response trimmed)."
                       /\ Len(formatted) = 3023
               /\ (Len(p) >= 50 /\ Len(p) <= 3000) => formatted = p

\* the text of 4000 characters of the scenario has been cut
C11_Witness ==
    /\ raw = LongBody(4000)
    /\ Len(raw) = 4000 /\ ~Contains(raw, Fence)
    /\ formatted = SubSeq(raw, 1, 3000) \o "... (response trimmed)."

(***************************************************************************)
(* Specification of query_groq over a store whose rows may carry the       *)
(* welcome flag: store_chat is called with its welcome_shown parameter, as *)
(* its signature allows, and /query requests are served from that store.   *)
(***************************************************************************)
\* the values of the welcome_shown column
WelcomeFlags == {0, 1}

\* store_chat(chat_id, user_id, user_msg, ai_msg, welcome_shown=w)
StoreWelcome(c, w) ==
    /\ pc = "idle"
    /\ db' = store_chat(db, dbUp, c, "u1", "hello", "Hi there, welcome!", "", w)
    /\ last' = [called |-> TRUE, chat_id |-> c, user_msg |-> "hello",
                ai_msg |-> "Hi there, welcome!", committed |-> dbUp]
    /\ exchanges' = [exchanges EXCEPT ![c] = 0]
    /\ resp' = NoResponse
    /\ ForgetQuery
    /\ UNCHANGED dbUp

InitWelcome ==
    /\ AppIdle
    /\ prompt = "" /\ tag = NoTag
    /\ raw = "" /\ formatted = NoText /\ reformatted = NoText

NextWelcome ==
    \/ \E w \in WelcomeFlags : StoreWelcome("c1", w) /\ UNCHANGED <<cvars, fvars, tvars>>
    \/ \E b \in RequestBodies : QueryStart(b) /\ UNCHANGED <<cvars, fvars, tvars>>
    \/ \E o \in Outcomes : Post(o) /\ UNCHANGED <<cvars, fvars, tvars>>
    \/ Backoff /\ UNCHANGED <<cvars, fvars, tvars>>
    \/ ToggleDb /\ UNCHANGED <<cvars, fvars, tvars>>

SpecWelcome == InitWelcome /\ [][NextWelcome]_vars

\* C12: a /query step whose prompt is classified greeting, on a chat whose
\* row carries the welcome flag (the store answering the read), sends no
\* request to the remote endpoint and has query_groq return the fixed text
\* 'Please provide your next query.'.
C12_GreetingSkipped ==
    [][LET started == pc = "idle" /\ pc' = "post"
           returned == pc = "idle" /\ pc' = "idle" /\ resp'.handler = "/query"
                           /\ last'.called
           c == IF started THEN req'.chat_id ELSE last'.chat_id
           q == IF started THEN req'.query ELSE last'.user_msg
       IN  (/\ started \/ returned
            /\ dbUp /\ db[c] # NoRow /\ db[c].welcome_shown # 0
            /\ classify_query(q) = "greeting")
               => /\ pc' = "idle"
                  /\ sent' = <<>>
                  /\ groq' = "Please provide your next query."
      ]_vars

\* a greeting on a chat with the flag has been answered without a request
C12_Witness ==
    /\ pc = "idle"
    /\ sent = <<>>
    /\ groq = "Please provide your next query."
    /\ resp.handler = "/query"
    /\ last.called /\ last.user_msg = "hello"

\* the system message query_groq appended last: the directive of the mode
DirectiveSent == plan.messages[Len(plan.messages)].content

\* C13 as stated: while a /query with deep_dive set is being served on a chat
\* that has a previous assistant turn, the directive in the prompt is the one
\* that asks to build on the previous response, with the budget and
\* temperature of that directive, whatever the intent.
C13_DeepDiveExpands ==
    (/\ pc \in {"post", "backoff"}
     /\ req.deep_dive
     /\ dbUp /\ db[req.chat_id] # NoRow /\ db[req.chat_id].ai_msg # "")
        => /\ Contains(DirectiveSent, "the previous response")
           /\ <<plan.max_tokens, plan.temp>> \in {<<1200, 2>>, <<600, 3>>}

\* C14: a pass of the retry loop whose request succeeds with a completion
\* text that is empty once trimmed makes query_groq return 'Error: No
\* response generated. Please try again.' and ends the loop, whether it is the
\* first, second or third attempt.
C14_EmptyCompletion ==
    [][\A o \in Outcomes :
           (Post(o) /\ o.kind = "ok" /\ strip(o.text) = "")
               => /\ groq' = "Error: No response generated. Please try again."
                  /\ pc' = "idle"
                  /\ sent' = Append(sent, "ok")
                  /\ Len(sent') = attempt + 1
                  /\ slept' = slept
      ]_vars

\* the third attempt, after two failures, has brought an empty completion
C14_Witness ==
    /\ pc = "idle"
    /\ sent = <<"RequestException", "RequestException", "ok">>
    /\ slept = <<1, 2>>
    /\ groq = "Error: No response generated. Please try again."

(***************************************************************************)
(* Specification of two /query requests served at the same time on one     *)
(* chat_id (app.run serves each request in its own thread, and each        *)
(* store_chat opens its own Session).  session.merge loads the row of the  *)
(* primary key into the session and copies the attributes of the new       *)
(* object onto it; session.commit flushes an INSERT when no row was        *)
(* loaded, and otherwise an UPDATE that sets only the columns whose new    *)
(* value differs from the loaded one.  An INSERT on a primary key that     *)
(* exists by then raises, and store_chat catches that and rolls back.      *)
(***************************************************************************)
RaceChat == "c1"

\* the follow-up question of the directive for prompt q
FollowUpOf(q) == DirectiveFor(ModeOf[q], q, FALSE, "").follow_up

\* the texts query_groq can return for prompt q
QueryGroqTexts(q) ==
    {Completion(o.text, FollowUpOf(q)) : o \in {x \in Outcomes : x.kind = "ok"}}
    \cup {GroqFailed(o.text) : o \in {x \in Outcomes : x.kind \in RequestExceptions}}

\* the table after an earlier, completed /query "hello" on the chat
PriorTable ==
    store_chat([c \in ChatIds |-> NoRow], TRUE, RaceChat, "u1", "hello",
               format_response(Completion("Hi there, welcome!", FollowUpOf("hello"))),
               "", WelcomeDefault)

Columns == {"user_id", "user_msg", "ai_msg", "title", "welcome_shown"}

\* the UPDATE of the flush: the columns of new that differ from loaded
UpdateChanged(row, loaded, new) ==
    [f \in DOMAIN row |->
        IF f \in Columns /\ new[f] # loaded[f] THEN new[f] ELSE row[f]]

\* lines 435-441 for thread w: query_groq returns text t, which is formatted
RaceAnswer(w, t) ==
    /\ threads[w].pc = "query"
    /\ threads' = [threads EXCEPT ![w].pc = "merge", ![w].text = format_response(t)]
    /\ UNCHANGED <<avars, commits>>

\* line 64 for thread w: session.merge loads the row of the chat_id
RaceMerge(w) ==
    /\ threads[w].pc = "merge"
    /\ threads' = [threads EXCEPT ![w].pc = "commit", ![w].loaded = db[RaceChat]]
    /\ UNCHANGED <<avars, commits>>

\* lines 65-71 and 443 for thread w: session.commit, then the response
RaceCommit(w) ==
    LET t == threads[w]
        new == ChatHistory(RaceChat, "u1", t.query, t.text, "", WelcomeDefault)
        inserts == t.loaded = NoRow
        written == IF inserts THEN db[RaceChat] = NoRow ELSE db[RaceChat] # NoRow
    IN  /\ t.pc = "commit"
        /\ db' = IF ~written THEN db
                 ELSE IF inserts THEN [db EXCEPT ![RaceChat] = new]
                 ELSE [db EXCEPT ![RaceChat] = UpdateChanged(@, t.loaded, new)]
        /\ commits' = IF written THEN Append(commits, w) ELSE commits
        /\ threads' = [threads EXCEPT
                          ![w].pc = "done",
                          ![w].resp = Envelope("/query", 200, "response", t.text, RaceChat)]
        /\ UNCHANGED <<dbUp, pc, req, plan, attempt, sent, slept, groq, resp, last, exchanges>>

InitRace ==
    /\ db \in {[c \in ChatIds |-> NoRow], PriorTable}
    /\ threads \in [Workers -> {[pc |-> "query", query |-> q, text |-> NoText,
                                 loaded |-> NoRow, resp |-> NoResponse] : q \in Queries}]
    /\ commits = <<>>
    /\ dbUp = TRUE /\ pc = "idle" /\ req = NoRequest /\ plan = NoPlan
    /\ attempt = 0 /\ sent = <<>> /\ slept = <<>> /\ groq = NoText
    /\ resp = NoResponse /\ last = NoCall /\ exchanges = NoExchanges
    /\ prompt = "" /\ tag = NoTag
    /\ raw = "" /\ formatted = NoText /\ reformatted = NoText

NextRace ==
    \/ \E w \in Workers : \E t \in QueryGroqTexts(threads[w].query) :
           RaceAnswer(w, t) /\ UNCHANGED <<cvars, fvars>>
    \/ \E w \in Workers : RaceMerge(w) /\ UNCHANGED <<cvars, fvars>>
    \/ \E w \in Workers : RaceCommit(w) /\ UNCHANGED <<cvars, fvars>>

SpecRace == InitRace /\ [][NextRace]_vars

\* C15 as stated: once two /query requests on the same chat_id have both
\* ended, in whatever order their steps were taken, both have answered with a
\* response and the row of the chat is the turn of the request that wrote
\* last: its user text together with its own assistant text.
C15_LastWriterWholeTurn ==
    (\A w \in Workers : threads[w].pc = "done")
        => /\ \A w \in Workers :
                  /\ threads[w].resp.status = 200
                  /\ threads[w].resp.shape = "response"
           /\ commits # <<>>
           /\ LET w == commits[Len(commits)]
              IN  /\ db[RaceChat] # NoRow
                  /\ db[RaceChat].user_msg = threads[w].query
                  /\ db[RaceChat].ai_msg = threads[w].text

\* a greeting word stands in p as a word of its own
HasGreetingWord(p) ==
    \E g \in greetings : \E i \in Hits(p, g) :
        WordBoundary(p, i) /\ WordBoundary(p, i + Len(g))

\* C16 as stated: a classified prompt that matches a debugging phrase
\* pattern, holds no greeting word, and matches no identity phrase, technical
\* keyword or technical phrase pattern is tagged debugging.
C16_DebuggingTag ==
    (/\ tag # NoTag
     /\ is_debugging(Normalize(prompt))
     /\ ~HasGreetingWord(Normalize(prompt))
     /\ ~is_developer(Normalize(prompt))
     /\ ~is_tech(Normalize(prompt)))
        => tag = "debugging"

\* C17 as stated: a classified prompt that matches an identity phrase and is
\* not exactly a greeting word is tagged developer, also when it matches a
\* technical keyword or pattern or a debugging pattern as well.
C17_IdentityFirst ==
    (/\ tag # NoTag
     /\ is_developer(Normalize(prompt))
     /\ Normalize(prompt) \notin greetings)
        => tag = "developer"

\* C18 as stated: a text that holds code fences, each opening fence with its
\* closing fence, is formatted into a text with the same number of fence
\* markers: none is appended.
C18_BalancedUntouched ==
    (/\ formatted # NoText
     /\ FenceCount(raw) > 0
     /\ OpeningFences(raw) = ClosingFences(raw))
        => FenceCount(formatted) = FenceCount(raw)

PythonLabel == "**Code Example (Python):**\n"

\* C19 as stated, for the python tag: in the formatted text every python fence
\* is preceded by the label of its language, and by one label only, also when
\* the fence carried its label already.
C19_LabeledOnce ==
    formatted # NoText
        => \A i \in Hits(formatted, Fence \o "python") :
               /\ At(formatted, PythonLabel \o "\n", i - Len(PythonLabel) - 1)
               /\ ~At(formatted, PythonLabel \o PythonLabel \o "\n",
                      i - 2 * Len(PythonLabel) - 1)

\* C20: whatever the handlers do from the empty store, every row is left with
\* welcome_shown = 0 and has_welcome_been_shown answers 0 for every chat_id;
\* so no /query is answered by query_groq without a request to the remote
\* endpoint, and its fixed text 'Please provide your next query.' is never
\* returned: a greeting, repeated or not, goes to the remote endpoint.
C20_WelcomeNeverShown ==
    [][/\ \A c \in ChatIds : db'[c] # NoRow => db'[c].welcome_shown = 0
       /\ \A c \in ChatIds : has_welcome_been_shown(db', dbUp', c) = 0
       /\ groq' # "Please provide your next query."
       /\ ~(/\ pc = "idle" /\ pc' = "idle"
            /\ resp'.handler = "/query" /\ last'.called)
       /\ (pc = "idle" /\ pc' = "post" /\ plan'.mode = "greeting")
              => /\ ~plan'.skip
                 /\ req'.query \in {q \in Queries : classify_query(q) = "greeting"}
      ]_vars

\* a second greeting on a chat that already holds the turn of a greeting is
\* on its way to the remote endpoint
C20_Witness ==
    /\ pc = "post"
    /\ req.query = "hello" /\ plan.mode = "greeting"
    /\ exchanges[req.chat_id] >= 1
    /\ db[req.chat_id] # NoRow
    /\ db[req.chat_id].user_msg = "hello"
    /\ db[req.chat_id].welcome_shown = 0

====
